---- MODULE Spec2Model ----
(***************************************************************************)
(* Session layer of the cdrs-tokio driver: the load-balanced connection    *)
(* choice (Session::load_balanced_connection), the request path of a      *)
(* prepared statement (Session::prepare_tw, Session::exec_with_params_tw)  *)
(* with its UNPREPARED recovery, over a cluster of connection managers;     *)
(* the event listener (Session::listen), the session builder               *)
(* (TcpSessionBuilder) and the codec of the STARTUP body and frame          *)
(* (BodyReqStartup, Frame::new_req_startup).                                *)
(*                                                                         *)
(* A step of a caller is the code between two suspension points (.await).  *)
(* The server and the nodes' health are the environment: a response is an  *)
(* input of the step that receives it, a node's health changes by the      *)
(* actions NodeDown and NodeUp.                                            *)
(***************************************************************************)
EXTENDS Integers, FiniteSets, Sequences, TLC

\* ------------------------------------------------------------------ bounds

MaxNodes == 3
NumCallers == 2
MaxRotCalls == 30
MaxNameLen == 3
MaxEvents == 2

\* --------------------------------------------------------------- constants

\* session.rs:96: the server error code of an unprepared statement (0x2500)
UNPREPARED == 9472
\* spec 7 (error kinds): WRITE_TIMEOUT (0x1100), a transient server error
WRITE_TIMEOUT == 4352
\* spec 6: the default retry policy retries once
MaxRetries == 1
\* session.rs:42
DEFAULT_TRANSPORT_BUFFER_SIZE == 1024

Callers == 1 .. NumCallers
MainCaller == CHOOSE p \in Callers : \A q \in Callers : p <= q
NodeIds == 1 .. MaxNodes
\* the opaque server-assigned ids of the scenarios C and D of the spec
Ids == {"cafebabe", "deadbeef"}
Texts == {"q1", "q2"}
NoId == "none"
NoText == "none"

VARIABLES
    size,       \* load_balancing.size(): the number of managers given to init
    rr,         \* the round-robin position of the load balancer
    up,         \* the nodes that accept a connection (environment)
    created,    \* whether the PreparedQuery handle exists
    pqId,       \* PreparedQuery.id (behind its RwLock)
    pqQuery,    \* PreparedQuery.query
    issued,     \* ids the server returned for PREPAREs of pqQuery (history)
    served,     \* connections returned per node (rotation count)
    rotCalls,   \* calls of load_balanced_connection counted in served
    call,       \* per caller: the position and locals of its running call
    startup,    \* the STARTUP codec: a body, its bytes, the parsed body, the frame
    listener,   \* the running or returned call of Session::listen
    builder,    \* the session builder, and the session it built
    cluster     \* the construction of the session: managers, init, Session

\* the state outside the session's request path
aux == <<startup, listener, builder, cluster>>

vars == <<size, rr, up, created, pqId, pqQuery, issued, served, rotCalls, call,
          startup, listener, builder, cluster>>

\* ------------------------------------------------------------ result values

Res(k, code, id) == [kind |-> k, code |-> code, id |-> id]
NoResult == Res("None", 0, NoId)
Rows(id) == Res("Rows", 0, id)
Prepared(id) == Res("Prepared", 0, id)
Void == Res("Void", 0, NoId)
ServerError(code) == Res("Server", code, NoId)
IoError == Res("Io", 0, NoId)
GeneralError == Res("General", 0, NoId)
LbSome(node) == Res("LbOk", node, NoId)
LbErr(node) == Res("LbErr", node, NoId)
LbNone == Res("LbNone", 0, NoId)

IsOk(r) == r.kind \in {"Rows", "Prepared", "Void"}

\* ------------------------------------------------------------------ frames

NoFrame == [opcode |-> "NONE", id |-> NoId, text |-> NoText]
ExecuteFrame(id) == [opcode |-> "EXECUTE", id |-> id, text |-> NoText]
PrepareFrame(text) == [opcode |-> "PREPARE", id |-> NoId, text |-> text]
QueryFrame(text) == [opcode |-> "QUERY", id |-> NoId, text |-> text]
BatchFrame == [opcode |-> "BATCH", id |-> NoId, text |-> NoText]

\* ------------------------------------------------------- the load balancer

\* next(): the manager at the round-robin position, 0 for None (no manager)
LbNext(sz, i) == IF sz = 0 THEN 0 ELSE i + 1
LbAdvance(sz, i) == IF sz = 0 THEN i ELSE (i + 1) % sz

\* ConnectionManager::connection: a ready transport of a node that accepts
ConnOk(node) == node \in up

Sat(n) == IF n >= 2 THEN 2 ELSE n + 1

\* ------------------------------------------------------ a caller's locals

IdleCall ==
    [pc |-> "idle", op |-> "none", stage |-> "none", frame |-> NoFrame,
     qidem |-> FALSE, idem |-> FALSE, cm |-> 0, policy |-> "none",
     path |-> "none", conn |-> 0, retries |-> 0, result |-> NoResult,
     lastResp |-> NoResult, prepResp |-> NoResult, readId |-> NoId,
     newId |-> NoId,
     nExec |-> 0, nPrep |-> 0,
     lbNexts |-> 0, lbReqs |-> 0, lbPols |-> {}, connRes |-> "none",
     held |-> "none", last |-> FALSE, addr |-> 0]

\* ------------------------------------------------- the STARTUP body (codec)

\* frame_startup.rs:7-9, as the bytes of the (ASCII) strings
\* "CQL_VERSION"
CQL_VERSION == <<67, 81, 76, 95, 86, 69, 82, 83, 73, 79, 78>>
\* "3.0.0"
CQL_VERSION_VAL == <<51, 46, 48, 46, 48>>
\* "COMPRESSION"
COMPRESSION == <<67, 79, 77, 80, 82, 69, 83, 83, 73, 79, 78>>

\* the compression names given to the codec: every string of at most
\* MaxNameLen characters among 'l', 'z', '4' (so "lz4" and ""), and "snappy"
NameChars == {108, 122, 52}
LZ4 == <<108, 122, 52>>
SNAPPY == <<115, 110, 97, 112, 112, 121>>
BoundedSeqs(S, n) == UNION {[1 .. k -> S] : k \in 0 .. n}
CompressionNames == BoundedSeqs(NameChars, MaxNameLen) \cup {SNAPPY}

\* Option<String>
NoCompression == [some |-> FALSE, name |-> <<>>]
SomeCompression(name) == [some |-> TRUE, name |-> name]
CompressionOptions ==
    {NoCompression} \cup {SomeCompression(n) : n \in CompressionNames}

Versions == {"V3", "V4", "V5"}

\* HashMap<String, String>: a set of <<key, value>> with one value per key
EmptyMap == {}
MapInsert(m, k, v) == {e \in m : e[1] # k} \cup {<<k, v>>}

\* Mutant: the compression name is inserted under the key of the version
BodyReqStartupNew_VersionKey(compression) ==
    LET m == MapInsert(EmptyMap, CQL_VERSION, CQL_VERSION_VAL)
    IN  [map |-> IF compression.some
                 THEN MapInsert(m, CQL_VERSION, compression.name)
                 ELSE m]

\* frame_startup.rs:17-25: BodyReqStartup::new
BodyReqStartupNew(compression) ==
    LET m == MapInsert(EmptyMap, CQL_VERSION, CQL_VERSION_VAL)
    IN  [map |-> IF compression.some
                 THEN MapInsert(m, COMPRESSION, compression.name)
                 ELSE m]

\* CIntShort::serialize: the 16 bits of n, big-endian
ShortBytes(n) == LET u == n % 65536 IN <<u \div 256, u % 256>>
\* CInt::serialize: the 32 bits of n (n >= 0 here), big-endian
IntBytes(n) ==
    <<n \div 16777216, (n \div 65536) % 256, (n \div 256) % 256, n % 256>>
\* serialize_str: a [string], its length as a short and then its bytes
StrBytes(s) == ShortBytes(Len(s)) \o s

\* Mutant: the number of pairs is written as a CInt (4 bytes)
SerializeCount_Int(n) == IntBytes(n)

\* frame_startup.rs:30-31: the number of pairs is written as a CIntShort
SerializeCount(n) == ShortBytes(n)

\* frame_startup.rs:33-36: the pairs, in the order the HashMap iterates
RECURSIVE SerializePairs(_)
SerializePairs(order) ==
    IF order = <<>> THEN <<>>
    ELSE StrBytes(Head(order)[1]) \o StrBytes(Head(order)[2])
             \o SerializePairs(Tail(order))

\* the orders in which a HashMap may iterate over its entries
IterOrders(m) ==
    {o \in [1 .. Cardinality(m) -> m] :
        \A i, j \in 1 .. Cardinality(m) : o[i] = o[j] => i = j}

\* frame_startup.rs:28-38: impl Serialize for BodyReqStartup
Serialize(body, order) ==
    SerializeCount(Cardinality(body.map)) \o SerializePairs(order)

\* the outcome of a read at a cursor: the value and the cursor's new position
ReadOk(val, pos) == [ok |-> TRUE, val |-> val, pos |-> pos]
ReadErr == [ok |-> FALSE, val |-> 0, pos |-> 0]

\* CIntShort::from_cursor: 2 bytes, big-endian, signed
ReadShort(bytes, pos) ==
    IF pos + 2 > Len(bytes) THEN ReadErr
    ELSE LET u == bytes[pos + 1] * 256 + bytes[pos + 2]
         IN  ReadOk(IF u >= 32768 THEN u - 65536 ELSE u, pos + 2)

\* CInt::from_cursor: 4 bytes, big-endian, signed
ReadInt(bytes, pos) ==
    IF pos + 4 > Len(bytes) THEN ReadErr
    ELSE LET hi == IF bytes[pos + 1] >= 128 THEN bytes[pos + 1] - 256
                   ELSE bytes[pos + 1]
         IN  ReadOk(hi * 16777216 + bytes[pos + 2] * 65536
                        + bytes[pos + 3] * 256 + bytes[pos + 4], pos + 4)

\* from_cursor_str: a short length, then that many bytes
ReadStr(bytes, pos) ==
    LET n == ReadShort(bytes, pos)
    IN  IF ~n.ok THEN ReadErr
        ELSE IF n.val < 0 \/ n.pos + n.val > Len(bytes) THEN ReadErr
        ELSE ReadOk(SubSeq(bytes, n.pos + 1, n.pos + n.val), n.pos + n.val)

\* How a call of from_cursor ends: it returns an error::Result<BodyReqStartup>
\* (Ok with the cursor's position after the parse, or Err), or it does not
\* return: the thread panics, or the process aborts.
ParseOk(m, pos) == [ok |-> TRUE, end |-> "Ok", map |-> m, pos |-> pos]
ParseErr == [ok |-> FALSE, end |-> "Err", map |-> EmptyMap, pos |-> 0]
ParsePanic == [ok |-> FALSE, end |-> "Panic", map |-> EmptyMap, pos |-> 0]
ParseAbort == [ok |-> FALSE, end |-> "Abort", map |-> EmptyMap, pos |-> 0]
NoParse == [ok |-> FALSE, end |-> "none", map |-> EmptyMap, pos |-> -1]

\* frame_startup.rs:44: HashMap::with_capacity(num as usize), on a 64-bit
\* target. A negative count is cast to a usize above 2^63 and the table's
\* size overflows: the call panics ("Hash table capacity overflow"). A count
\* of 0 allocates nothing. For a positive count the table is allocated, which
\* the allocator grants or not (`granted`, the environment's: the memory left
\* to the process); when it does not, the process aborts.
WithCapacity(num, granted) ==
    IF num < 0 THEN "Panic"
    ELSE IF num = 0 \/ granted THEN "Ok"
    ELSE "Abort"

\* frame_startup.rs:45-50: `num` times, a key and then a value are read and
\* inserted; the first read that fails ends the parse with its error
RECURSIVE ReadPairs(_, _, _, _)
ReadPairs(bytes, pos, n, m) ==
    IF n <= 0 THEN ParseOk(m, pos)
    ELSE LET k == ReadStr(bytes, pos)
         IN  IF ~k.ok THEN ParseErr
             ELSE LET v == ReadStr(bytes, k.pos)
                  IN  IF ~v.ok THEN ParseErr
                      ELSE ReadPairs(bytes, v.pos, n - 1,
                                     MapInsert(m, k.val, v.val))

\* frame_startup.rs:42: the number of pairs is read as a CInt
FromCursorCount(bytes) == ReadInt(bytes, 0)

\* frame_startup.rs:40-54: impl FromCursor for BodyReqStartup
FromCursor(bytes, granted) ==
    LET num == FromCursorCount(bytes)
    IN  IF ~num.ok THEN ParseErr
        ELSE LET table == WithCapacity(num.val, granted)
             IN  IF table = "Panic" THEN ParsePanic
                 ELSE IF table = "Abort" THEN ParseAbort
                 ELSE ReadPairs(bytes, num.pos, num.val, EmptyMap)

\* Frame::new: a frame of the given fields
NoTracing == "None"
FrameNew(version, direction, flags, opcode, body, tracing_id, warnings) ==
    [version |-> version, direction |-> direction, flags |-> flags,
     opcode |-> opcode, body |-> body, tracing_id |-> tracing_id,
     warnings |-> warnings]
NoStartupFrame == FrameNew("none", "none", {}, "NONE", <<>>, NoTracing, <<>>)

\* Mutant: the COMPRESSION flag is set when a compression is configured
NewReqStartupFlags_Compression(compression) ==
    IF compression.some THEN {"COMPRESSION"} ELSE {}

\* frame_startup.rs:68: Flags::empty()
NewReqStartupFlags(compression) == {}

\* frame_startup.rs:60-74: Frame::new_req_startup
NewReqStartup(compression, version, order) ==
    FrameNew(version, "Request", NewReqStartupFlags(compression), "Startup",
             Serialize(BodyReqStartupNew(compression), order),
             NoTracing, <<>>)

\* the codec at rest
IdleStartup ==
    [pc |-> "idle", compression |-> NoCompression, version |-> "V4",
     body |-> [map |-> EmptyMap], bytes |-> <<>>, parsed |-> NoParse,
     frame |-> NoStartupFrame]

\* ------------------------------------------------------------ Session::listen

\* SimpleServerEvent, and the Vec of them given to listen
EventTypes == {"TOPOLOGY_CHANGE", "STATUS_CHANGE", "SCHEMA_CHANGE"}
EventLists == BoundedSeqs(EventTypes, MaxEvents)

NoRegister == [opcode |-> "NONE", events |-> <<>>]
\* session.rs:620: Frame::new_req_register(events)
RegisterFrame(events) == [opcode |-> "REGISTER", events |-> events]

\* No call of listen: no manager, no transport, no handle, no stream.
\* `receiver`, `manager` and `transport` say who holds event_receiver,
\* connection_manager and transport of listen: "listen"/"created"/"Ready"
\* while they are its locals, "handle" once the returned Listener holds the
\* receiver, "dropped" once listen has returned without passing them on.
\* What a transport does when the last reference to it is dropped is decided
\* by the transport itself and is not part of this model.
IdleListener ==
    [pc |-> "idle", events |-> <<>>, result |-> "none", failedAt |-> "none",
     manager |-> "none", policy |-> "none", handler |-> "none",
     receiver |-> "none", transport |-> "none", register |-> NoRegister,
     handle |-> "none", stream |-> "none",
     connRes |-> "none", writeRes |-> "none"]

\* session.rs:598-603: from the entry of listen to the build of the node's
\* configuration
ListenBegin(events) == [IdleListener EXCEPT !.pc = "config", !.events = events]

\* An `?` of listen returns the error: the locals made so far (the receiving
\* end of the event channel, the manager, the transport) are dropped, no
\* handle and no stream is made
ListenFail(l, at) ==
    [l EXCEPT !.pc = "done", !.result = "Err", !.failedAt = at,
              !.receiver = IF @ = "listen" THEN "dropped" ELSE @,
              !.manager = IF @ = "created" THEN "dropped" ELSE @,
              !.transport = IF @ = "Ready" THEN "dropped" ELSE @]

\* session.rs:614: the manager is given the sending end of the event channel
ListenEventHandler == "Some"

\* session.rs:617: the connection is asked under the Never policy
ListenPolicy == "Never"

\* What the build of the node's configuration gives (session.rs:599-603):
\* an error, or a list of node configurations, which is empty or not
ConfigOutcomes == {"Err", "Empty", "Node"}

\* session.rs:599-618: the build of the configuration has ended. Its error is
\* returned by `?` (603). Otherwise the event channel is made (604); when the
\* list is empty, get(0) is None and the error "Empty node list!" is returned
\* (606-609) with no manager made, both ends of the channel dropped; else the
\* dedicated manager is made and the connection is asked for.
ListenAfterConfig(l, config) ==
    IF config = "Err" THEN ListenFail(l, "config")
    ELSE LET c == [l EXCEPT !.receiver = "listen"]
         IN  IF config = "Empty" THEN ListenFail(c, "nodes")
             ELSE [c EXCEPT !.pc = "conn", !.manager = "created",
                            !.handler = ListenEventHandler,
                            !.policy = ListenPolicy]

\* session.rs:616-621: the connection request has ended; on a ready transport
\* the REGISTER frame is built and written
ListenAfterConn(l, ok) ==
    IF ~ok THEN ListenFail(l, "connection")
    ELSE [l EXCEPT !.pc = "write", !.transport = "Ready",
                   !.register = RegisterFrame(l.events)]

\* session.rs:623-628: what listen returns after the write of REGISTER: the
\* Listener made of event_receiver, and the event stream; the locals
\* connection_manager and transport are dropped at the return
ListenOk(l) ==
    [l EXCEPT !.pc = "done", !.result = "Ok", !.handle = "open",
              !.stream = "open", !.receiver = "handle",
              !.manager = "dropped", !.transport = "dropped"]

\* Mutant: the outcome of the write of REGISTER is not looked at
ListenAfterWrite_IgnoresError(l, ok) == ListenOk(l)

\* session.rs:621-627: the write of REGISTER has ended; on success the
\* listener (holding the receiving end of the event channel) and the event
\* stream are returned
ListenAfterWrite(l, ok) ==
    IF ~ok THEN ListenFail(l, "write") ELSE ListenOk(l)

\* --------------------------------------------------------- TcpSessionBuilder

Compressions == {"None", "Lz4", "Snappy"}
BufferSizes == {1, DEFAULT_TRANSPORT_BUFFER_SIZE, 4096}
RetryPolicies == {"Default", "Fallthrough"}
ReconnectionPolicies == {"Exponential", "Constant", "Never"}

\* the options of SessionConfig a with_* setter assigns
Options == {"compression", "transport_buffer_size", "tcp_nodelay",
            "retry_policy", "reconnection_policy"}
OptionValues(o) ==
    CASE o = "compression" -> Compressions
      [] o = "transport_buffer_size" -> BufferSizes
      [] o = "tcp_nodelay" -> BOOLEAN
      [] o = "retry_policy" -> RetryPolicies
      [] OTHER -> ReconnectionPolicies

\* session.rs:774-781: the configuration TcpSessionBuilder::new starts from
BuilderNewConfig ==
    [compression |-> "None",
     transport_buffer_size |-> DEFAULT_TRANSPORT_BUFFER_SIZE,
     tcp_nodelay |-> TRUE,
     retry_policy |-> "Default",
     reconnection_policy |-> "Exponential"]

NoSession ==
    [built |-> FALSE, config |-> BuilderNewConfig, nodes |-> 0, managers |-> {}]

\* No builder yet
NoBuilder ==
    [pc |-> "none", config |-> BuilderNewConfig, node_configs |-> 0,
     givenNodes |-> 0, set |-> {}, given |-> BuilderNewConfig,
     session |-> NoSession]

\* session.rs:772-785: TcpSessionBuilder::new(load_balancing, node_configs)
BuilderNew(n) ==
    [NoBuilder EXCEPT !.pc = "building", !.config = BuilderNewConfig,
                      !.node_configs = n]

\* Mutant: with_tcp_nodelay also puts the buffer size back to its default
WithOption_ResetsBuffer(b, o, v) ==
    [b EXCEPT !.config =
        IF o = "tcp_nodelay"
        THEN [@ EXCEPT ![o] = v,
                       !.transport_buffer_size = DEFAULT_TRANSPORT_BUFFER_SIZE]
        ELSE [@ EXCEPT ![o] = v]]

\* session.rs:790-816: with_compression, with_retry_policy,
\* with_reconnection_policy, with_transport_buffer_size, with_tcp_nodelay:
\* each assigns its own field of self.config
WithOption(b, o, v) == [b EXCEPT !.config = [@ EXCEPT ![o] = v]]

\* Mutant: the managers of the pool are made with an event handler
BuildManagers_WithHandler(b) ==
    {[node |-> n, compression |-> b.config.compression,
      transport_buffer_size |-> b.config.transport_buffer_size,
      tcp_nodelay |-> b.config.tcp_nodelay, handler |-> "Some"] :
        n \in 1 .. b.node_configs}

\* session.rs:820-832: one manager per node configuration, made with the
\* compression, buffer size and tcp_nodelay of the configuration and with no
\* event handler
BuildManagers(b) ==
    {[node |-> n, compression |-> b.config.compression,
      transport_buffer_size |-> b.config.transport_buffer_size,
      tcp_nodelay |-> b.config.tcp_nodelay, handler |-> "None"] :
        n \in 1 .. b.node_configs}

\* session.rs:818-844: build: load_balancing.init(nodes) and Session::new
BuildSession(b) ==
    [built |-> TRUE, config |-> b.config, nodes |-> b.node_configs,
     managers |-> BuildManagers(b)]

\* ---------------------------------------- the construction of the session

\* n node configurations, named by their position in the configuration
NodeSeq(n) == [k \in 1 .. n |-> k]

\* No session is being made: the load balancer has not been given its nodes
NoCluster ==
    [pc |-> "none", path |-> "none", initial_nodes |-> <<>>, nodes |-> <<>>,
     lbNodes |-> <<>>, initCalls |-> 0, session |-> FALSE, result |-> "none",
     failedAt |-> 0]

\* init(nodes) of the load balancer: it takes the list as its node list
\* (spec 4.5)
LbInit(cl, nodes) == [cl EXCEPT !.lbNodes = nodes, !.initCalls = @ + 1]

\* Mutant: the manager of a node is put at the front of the list
PushNode_Front(nodes, m) == <<m>> \o nodes

\* session.rs:430 and 831: nodes.push(Arc::new(connection_manager))
PushNode(nodes, m) == Append(nodes, m)

\* session.rs:822-832: the loop of build over the node configurations
RECURSIVE BuildLoop(_, _)
BuildLoop(nodes, rest) ==
    IF rest = <<>> THEN nodes
    ELSE BuildLoop(PushNode(nodes, Head(rest)), Tail(rest))

\* session.rs:818-844: build: the managers, init(nodes), Session::new
BuildCluster(node_configs) ==
    LET cl == [NoCluster EXCEPT !.path = "build",
                                !.initial_nodes = node_configs,
                                !.nodes = BuildLoop(<<>>, node_configs)]
    IN  [LbInit(cl, cl.nodes) EXCEPT !.pc = "done", !.session = TRUE,
                                     !.result = "Ok"]

\* A session built from n node configurations
BuiltCluster(n) == BuildCluster(NodeSeq(n))

\* Mutant: the load balancer is given the list after every manager made
ConnectLoop_InitEach(cl) ==
    IF Len(cl.nodes) = Len(cl.initial_nodes)
    THEN [LbInit(cl, cl.nodes) EXCEPT !.pc = "done", !.session = TRUE,
                                      !.result = "Ok"]
    ELSE [LbInit(cl, cl.nodes) EXCEPT !.pc = "creating"]

\* session.rs:427-443: the loop of connect_generic_static up to its next
\* create_manager(..).await, or past the loop: init(nodes) and Ok(Session)
ConnectLoop(cl) ==
    IF Len(cl.nodes) = Len(cl.initial_nodes)
    THEN [LbInit(cl, cl.nodes) EXCEPT !.pc = "done", !.session = TRUE,
                                      !.result = "Ok"]
    ELSE [cl EXCEPT !.pc = "creating"]

\* session.rs:425-428: connect_generic_static is entered
ConnectBegin(initial_nodes) ==
    ConnectLoop([NoCluster EXCEPT !.path = "connect",
                                  !.initial_nodes = initial_nodes])

\* session.rs:428-430: create_manager(..).await? has ended: its error is
\* returned, or the manager is pushed and the loop goes on
ConnectCreated(cl, ok) ==
    IF ok
    THEN ConnectLoop([cl EXCEPT !.nodes =
                         PushNode(@, cl.initial_nodes[Len(cl.nodes) + 1])])
    ELSE [cl EXCEPT !.pc = "done", !.result = "Err",
                    !.failedAt = cl.initial_nodes[Len(cl.nodes) + 1]]

\* The session made from cl: its load balancer holds cl.lbNodes, the rotation
\* is at its start, every node accepts connections, nothing was prepared
SessionOf(cl) ==
    /\ size' = Len(cl.lbNodes)
    /\ rr' = 0
    /\ up' = 1 .. Len(cl.lbNodes)
    /\ UNCHANGED <<created, pqId, pqQuery, issued, served, rotCalls, call>>

InitSession ==
    /\ size \in 0 .. MaxNodes
    /\ rr = 0
    /\ up = 1 .. size
    /\ created = FALSE
    /\ pqId = NoId
    /\ pqQuery = NoText
    /\ issued = {}
    /\ served = [n \in NodeIds |-> 0]
    /\ rotCalls = 0
    /\ call = [p \in Callers |-> IdleCall]

Init ==
    /\ InitSession
    /\ startup = IdleStartup
    /\ listener = IdleListener
    /\ builder = NoBuilder
    /\ cluster = BuiltCluster(size)

\* ------------------------------------------- load_balanced_connection

\* session.rs:323: the single-manager path is taken when size() < 2
UseSinglePath(sz) == sz < 2

\* Mutant: the single manager is asked under the Never policy
SinglePolicy_Never == "Never"
\* session.rs:332: the single manager is asked under the session's policy
SinglePolicy == "Session"

\* Mutant: the managers of the rotation are asked under the session's policy
LoopPolicy_Session == "Session"
\* session.rs:344: a manager of the rotation is asked under the Never policy
LoopPolicy == "Never"

\* The outcome of a stretch of load_balanced_connection: the caller's locals,
\* the load balancer's position, and the value returned (NoResult while the
\* call is suspended in a connection request).
LbOut(c, i, ret) == [c |-> c, rr |-> i, ret |-> ret]

\* session.rs:342-345: one turn of the loop, up to the connection request
LoopTurnBody(c, sz, i) ==
    LET m == LbNext(sz, i)
    IN  IF m = 0
        THEN LbOut([c EXCEPT !.cm = 0, !.lbNexts = Sat(@)],
                   LbAdvance(sz, i), LbNone)
        ELSE LbOut([c EXCEPT !.pc = "conn", !.cm = m, !.policy = LoopPolicy,
                             !.path = "loop", !.lbNexts = Sat(@),
                             !.lbReqs = Sat(@),
                             !.lbPols = @ \cup {LoopPolicy}],
                   LbAdvance(sz, i), NoResult)

\* Mutant: a turn of the loop calls next() twice and skips a manager
LoopTurn_Skip(c, sz, i) ==
    LoopTurnBody([c EXCEPT !.lbNexts = Sat(@)], sz, LbAdvance(sz, i))

LoopTurn(c, sz, i) == LoopTurnBody(c, sz, i)

\* session.rs:322-333 (and 341-345 when no single manager was taken): from the
\* entry of load_balanced_connection to its first connection request
LbStart(c, sz, i) ==
    LET c0 == [c EXCEPT !.lbNexts = 0, !.lbReqs = 0, !.lbPols = {},
                        !.cm = 0, !.policy = "none", !.path = "none",
                        !.connRes = "none"]
    IN  IF UseSinglePath(sz)
        THEN IF LbNext(sz, i) # 0
             THEN LbOut([c0 EXCEPT !.pc = "conn", !.cm = LbNext(sz, i),
                                   !.policy = SinglePolicy, !.path = "single",
                                   !.lbNexts = 1, !.lbReqs = 1,
                                   !.lbPols = {SinglePolicy}],
                        LbAdvance(sz, i), NoResult)
             ELSE LoopTurn([c0 EXCEPT !.lbNexts = 1], sz, LbAdvance(sz, i))
        ELSE LoopTurn(c0, sz, i)

\* Mutant: the loop returns the error of a failed connection request
LbResume_ReturnsErr(c, sz, i, ok) ==
    LbOut(c, i, IF ok THEN LbSome(c.cm) ELSE LbErr(c.cm))

\* session.rs:335-338 and 346-348: the connection request has ended
LbResume(c, sz, i, ok) ==
    IF c.path = "single"
    THEN LbOut(c, i, IF ok THEN LbSome(c.cm) ELSE LbErr(c.cm))
    ELSE IF ok THEN LbOut(c, i, LbSome(c.cm)) ELSE LoopTurn(c, sz, i)

\* ------------------------------------------------ the PreparedQuery handle

Handle == [created |-> created, id |-> pqId, query |-> pqQuery]

SetHandle(h) ==
    /\ created' = h.created
    /\ pqId' = h.id
    /\ pqQuery' = h.query

\* The RwLock of PreparedQuery.id: the guard a call holds while it is
\* suspended ("none", "read" or "write"). A read guard is granted while no
\* call holds the write guard, the write guard while no other call holds any.
CanRead == \A q \in Callers : call[q].held # "write"
CanWrite(p) == \A q \in Callers \ {p} : call[q].held = "none"

\* session.rs:82-90: the read guard is a temporary of the statement that
\* builds the EXECUTE frame; it is dropped at the end of that statement,
\* before send_frame is awaited (line 92)
ReadGuardAtDispatch == "none"

\* session.rs:98-101: the write guard is a temporary of the assignment; it is
\* dropped at the end of that statement, before the re-execute is built and
\* send_frame is awaited (lines 103-104)
WriteGuardAtDispatch == "none"

\* ---------------------------------------------------------------- send_frame

\* The retry policy's decision on a failed write (spec 4.6 step 5, spec 6 and
\* the glossary): never more than MaxRetries retries, never for a request that
\* is not idempotent; a transport error moves to the next node, a write
\* timeout retries on the same node, any other error is surfaced.
RetryDecide(res, retries, idem) ==
    IF retries >= MaxRetries \/ ~idem THEN "Abort"
    ELSE IF res.kind = "Io" THEN "RetryNext"
    ELSE IF res.kind = "Server" /\ res.code = WRITE_TIMEOUT THEN "RetrySame"
    ELSE "Abort"

\* What a server may answer to a frame
Responses(frame) ==
    IF frame.opcode = "EXECUTE"
    THEN {Rows(frame.id), ServerError(UNPREPARED), ServerError(WRITE_TIMEOUT),
          IoError}
    ELSE IF frame.opcode = "PREPARE"
    THEN {Prepared(i) : i \in Ids} \cup {Void, IoError}
    ELSE {Void, ServerError(WRITE_TIMEOUT), IoError}

\* Mutant: any frame that is not an error is taken for a prepared result
PrepareOutcome_Lenient(res) ==
    IF IsOk(res) THEN Prepared(res.id) ELSE res

\* session.rs:179-185: the result of prepare_raw_tw from that of its send_frame
PrepareOutcome(res) ==
    IF res.kind = "Prepared" THEN res
    ELSE IF IsOk(res) THEN GeneralError
    ELSE res

\* ------------------------------------- prepare_tw and exec_with_params_tw

\* Mutant: a PREPARE is dispatched as idempotent
PrepareIsIdempotent_True == TRUE

\* session.rs:179: prepare_raw_tw hands `false` to send_frame
PrepareIsIdempotent == FALSE

\* Mutant: any server error starts the recovery
IsUnprepared_AnyServerError(res) == res.kind = "Server"

\* session.rs:94-96: the result is a server error with code 0x2500
IsUnprepared(res) == res.kind = "Server" /\ res.code = UNPREPARED

\* Mutant: the recovery prepares another text than the handle's
RecoveryText_Other(h) == CHOOSE t \in Texts : t # h.query

\* session.rs:97: the text of the PREPARE sent during recovery
RecoveryText(h) == h.query

\* Mutant: the re-execute is built from the id found in the handle
ReexecId_Shared(new, h) == h.id

\* session.rs:103: the id of the re-executed EXECUTE frame
ReexecId(new, h) == new

\* Mutant: the new id is not written into the handle
WriteId_Skip(h, new) == h

\* session.rs:98-101: the handle after the write of the new id
WriteId(h, new) == [h EXCEPT !.id = new]

\* A send_frame of the call has returned `res`; the code that follows it, up
\* to the next send_frame or to the return of the call.
Returned(c, res, h) ==
    [c |-> [c EXCEPT !.pc = "done", !.result = res, !.held = "none"], h |-> h]

\* session.rs:207-213: prepare_tw maps the prepared result to a new handle
PrepareTwDone(c, res, h) ==
    LET r == PrepareOutcome(res)
    IN  IF r.kind = "Prepared"
        THEN Returned(c, r, [created |-> TRUE, id |-> r.id,
                             query |-> c.frame.text])
        ELSE Returned(c, r, h)

\* session.rs:92-97: after the first send_frame
ExecFirstDone(c, res, h) ==
    IF IsUnprepared(res)
    THEN [c |-> [c EXCEPT !.pc = "lbc", !.result = res, !.stage = "reprepare",
                          !.frame = PrepareFrame(RecoveryText(h)),
                          !.idem = PrepareIsIdempotent, !.retries = 0,
                          !.nPrep = Sat(@)],
          h |-> h]
    ELSE Returned(c, res, h)

\* Mutant: when the reprepare fails its error is returned
ExecReprepareDone_ReturnsPrepareError(c, res, h) ==
    LET r == PrepareOutcome(res)
    IN  IF r.kind = "Prepared"
        THEN [c |-> [c EXCEPT !.pc = "lbc", !.stage = "second",
                              !.newId = r.id,
                              !.frame = ExecuteFrame(ReexecId(r.id, h)),
                              !.idem = c.qidem, !.retries = 0,
                              !.nExec = Sat(@),
                              !.held = WriteGuardAtDispatch,
                              !.last = TRUE],
              h |-> WriteId(h, r.id)]
        ELSE Returned(c, r, h)

\* Mutant: the id is written only while the handle still holds the id the
\* call read (compare and set)
ExecReprepareDone_WriteIfUnchanged(c, res, h) ==
    LET r == PrepareOutcome(res)
    IN  IF r.kind = "Prepared"
        THEN [c |-> [c EXCEPT !.pc = "lbc", !.stage = "second",
                              !.newId = r.id,
                              !.frame = ExecuteFrame(ReexecId(r.id, h)),
                              !.idem = c.qidem, !.retries = 0,
                              !.nExec = Sat(@),
                              !.held = WriteGuardAtDispatch,
                              !.last = TRUE],
              h |-> IF h.id = c.readId THEN WriteId(h, r.id) ELSE h]
        ELSE [c |-> [c EXCEPT !.pc = "done", !.held = "none"], h |-> h]

\* session.rs:97-104: after the prepare_raw of the recovery
ExecReprepareDone(c, res, h) ==
    LET r == PrepareOutcome(res)
    IN  IF r.kind = "Prepared"
        THEN [c |-> [c EXCEPT !.pc = "lbc", !.stage = "second",
                              !.newId = r.id,
                              !.frame = ExecuteFrame(ReexecId(r.id, h)),
                              !.idem = c.qidem, !.retries = 0,
                              !.nExec = Sat(@),
                              !.held = WriteGuardAtDispatch,
                              !.last = TRUE],
              h |-> WriteId(h, r.id)]
        ELSE [c |-> [c EXCEPT !.pc = "done", !.held = "none"], h |-> h]

\* Mutant: the result of the re-execute is dropped, the first error returned
ExecSecondDone_KeepsFirst(c, res, h) == [c |-> [c EXCEPT !.pc = "done"], h |-> h]

\* Mutant: the recovery runs again when the re-execute is unprepared too
ExecSecondDone_Again(c, res, h) == ExecFirstDone(c, res, h)

\* session.rs:104-108: after the second send_frame
ExecSecondDone(c, res, h) == Returned(c, res, h)

\* session.rs:236 and 263: query_with_params_tw and batch_with_params_tw
\* return what their send_frame returned
SendDone(c, res, h) == Returned(c, res, h)

Cont(c, res, h) ==
    CASE c.op = "prepare" -> PrepareTwDone(c, res, h)
      [] c.op \in {"query", "batch"} -> SendDone(c, res, h)
      [] c.op = "exec" /\ c.stage = "first" -> ExecFirstDone(c, res, h)
      [] c.op = "exec" /\ c.stage = "reprepare" -> ExecReprepareDone(c, res, h)
      [] OTHER -> ExecSecondDone(c, res, h)

\* ----------------------------------------------------------------- actions

\* `last` marks the call whose write of the id (session.rs:98-101) is the
\* latest one: the step that writes marks the writer and unmarks the others.
Apply(p, out) ==
    /\ call' = [q \in Callers |->
                  IF q = p THEN out.c
                  ELSE IF out.c.last /\ ~call[p].last
                  THEN [call[q] EXCEPT !.last = FALSE]
                  ELSE call[q]]
    /\ SetHandle(out.h)

\* load_balanced_connection has come to `o` (LbOut) for caller p: it is
\* suspended in a connection request, or it has returned to its caller, which
\* is the client (op = "lb") or send_frame; send_frame writes the frame on the
\* transport it got, and returns an error when it got none.
Proceed(p, o) ==
    /\ rr' = o.rr
    /\ IF o.ret = NoResult
       THEN Apply(p, [c |-> o.c, h |-> Handle])
       ELSE IF o.c.op = "lb"
       THEN Apply(p, Returned(o.c, o.ret, Handle))
       ELSE IF o.ret.kind = "LbOk"
       THEN Apply(p, [c |-> [o.c EXCEPT !.pc = "await", !.conn = o.ret.code],
                      h |-> Handle])
       ELSE IF o.ret.kind = "LbNone"
       THEN Apply(p, Cont(o.c, GeneralError, Handle))
       ELSE Apply(p, Cont(o.c, IoError, Handle))

\* prepare_tw(text) is called (session.rs:201-209)
PrepareStart(p) ==
    /\ call[p].pc = "idle"
    /\ ~created
    /\ \A q \in Callers : call[q].op # "prepare"
    /\ \E text \in Texts :
         call' = [call EXCEPT ![p] = [IdleCall EXCEPT !.pc = "lbc",
                     !.op = "prepare", !.frame = PrepareFrame(text),
                     !.idem = PrepareIsIdempotent]]
    /\ UNCHANGED <<aux, size, rr, up, created, pqId, pqQuery, issued, served, rotCalls>>

\* session.rs:81-92: the id is read under the read lock, the frame is built
ExecBegin(h, idem) ==
    [IdleCall EXCEPT !.pc = "lbc", !.op = "exec", !.stage = "first",
                     !.readId = h.id, !.frame = ExecuteFrame(h.id),
                     !.qidem = idem,
                     !.idem = idem, !.nExec = 1,
                     !.held = ReadGuardAtDispatch]

\* exec_with_params_tw(prepared, params) is called, with is_idempotent of the
\* parameters drawn from `idems`
ExecStart(p, idems) ==
    /\ call[p].pc = "idle"
    /\ created
    /\ CanRead
    /\ \E idem \in idems :
         call' = [call EXCEPT ![p] = ExecBegin(Handle, idem)]
    /\ UNCHANGED <<aux, size, rr, up, created, pqId, pqQuery, issued, served, rotCalls>>

\* session.rs:253-263: query_with_params_tw up to its send_frame; qidem is
\* is_idempotent of the parameters, idem the flag handed to send_frame
QueryBegin(text, query_params) ==
    [IdleCall EXCEPT !.pc = "lbc", !.op = "query",
                     !.frame = QueryFrame(text),
                     !.qidem = query_params.is_idempotent,
                     !.idem = query_params.is_idempotent]

\* query_with_params_tw(text, query_params) is called
QueryStart(p) ==
    /\ call[p].pc = "idle"
    /\ \E text \in Texts, idem \in BOOLEAN :
         call' = [call EXCEPT
                    ![p] = QueryBegin(text, [is_idempotent |-> idem])]
    /\ UNCHANGED <<aux, size, rr, up, created, pqId, pqQuery, issued, served, rotCalls>>

\* session.rs:231-236: batch_with_params_tw up to its send_frame
BatchBegin(batch) ==
    [IdleCall EXCEPT !.pc = "lbc", !.op = "batch", !.frame = BatchFrame,
                     !.qidem = batch.is_idempotent,
                     !.idem = batch.is_idempotent]

\* batch_with_params_tw(batch) is called
BatchStart(p) ==
    /\ call[p].pc = "idle"
    /\ \E idem \in BOOLEAN :
         call' = [call EXCEPT ![p] = BatchBegin([is_idempotent |-> idem])]
    /\ UNCHANGED <<aux, size, rr, up, created, pqId, pqQuery, issued, served, rotCalls>>

\* load_balanced_connection is entered (by send_frame, or by the client)
LbEnter(p) ==
    /\ call[p].pc = "lbc"
    /\ Proceed(p, LbStart(call[p], size, rr))
    /\ UNCHANGED <<aux, size, up, issued, served, rotCalls>>

\* the connection request of the manager call[p].cm ends
ConnDone(p) ==
    /\ call[p].pc = "conn"
    /\ LET ok == ConnOk(call[p].cm)
           c == [call[p] EXCEPT !.connRes = IF ok THEN "ok" ELSE "err"]
       IN  Proceed(p, LbResume(c, size, rr, ok))
    /\ UNCHANGED <<aux, size, up, issued, served, rotCalls>>

\* the response to the written frame arrives; send_frame returns it, or
\* retries as the retry policy decides
Response(p) ==
    /\ call[p].pc = "await"
    /\ \E resp \in Responses(call[p].frame) :
         LET c == [call[p] EXCEPT !.lastResp = resp,
                       !.prepResp = IF resp.kind = "Prepared" THEN resp ELSE @]
             d == RetryDecide(resp, c.retries, c.idem)
         IN  /\ (c.op = "exec" /\ c.stage = "reprepare"
                 /\ resp.kind = "Prepared") => CanWrite(p)
             /\ issued' = IF /\ resp.kind = "Prepared"
                             /\ c.op = "prepare" \/ c.frame.text = pqQuery
                          THEN issued \cup {resp.id}
                          ELSE issued
             /\ IF IsOk(resp) \/ d = "Abort"
                THEN Apply(p, Cont(c, resp, Handle))
                ELSE IF d = "RetrySame"
                THEN Apply(p, [c |-> [c EXCEPT !.retries = @ + 1],
                               h |-> Handle])
                ELSE Apply(p, [c |-> [c EXCEPT !.retries = @ + 1,
                                               !.pc = "lbc"],
                               h |-> Handle])
    /\ UNCHANGED <<aux, size, rr, up, served, rotCalls>>

\* the caller takes the result of its prepare_tw or exec_with_params_tw
Return(p) ==
    /\ call[p].pc = "done"
    /\ call[p].op # "lb"
    /\ call' = [call EXCEPT ![p] = IdleCall]
    /\ UNCHANGED <<aux, size, rr, up, created, pqId, pqQuery, issued, served, rotCalls>>

\* the client calls load_balanced_connection itself
LbCall(p) ==
    /\ call[p].pc = "idle"
    /\ call' = [call EXCEPT ![p] = [IdleCall EXCEPT !.pc = "lbc", !.op = "lb"]]
    /\ UNCHANGED <<aux, size, rr, up, created, pqId, pqQuery, issued, served, rotCalls>>

\* the client takes the result of load_balanced_connection
LbReturn(p) ==
    /\ call[p].pc = "done"
    /\ call[p].op = "lb"
    /\ call' = [call EXCEPT ![p] = IdleCall]
    /\ UNCHANGED <<aux, size, rr, up, created, pqId, pqQuery, issued, served, rotCalls>>

\* ---------------------------------------------------------- node_connection

\* The addresses a client may ask for: the manager of node n has address n,
\* and one address belongs to no node.
Addrs == 1 .. MaxNodes + 1

\* find(|cm| cm.addr() == *node): the manager with that address, 0 for None
\* (a linear scan of the node list, spec 4.5)
LbFind(sz, addr) == IF addr \in 1 .. sz THEN addr ELSE 0

\* Mutant: the manager is asked under the Never policy
NodePolicy_Never == "Never"
\* session.rs:358: the manager is asked under the session's policy
NodePolicy == "Session"

\* session.rs:354-358: from the entry of node_connection to its connection
\* request, or to the return of None by `?`
NodeConnBegin(sz, addr) ==
    LET m == LbFind(sz, addr)
        c == [IdleCall EXCEPT !.op = "node", !.addr = addr]
    IN  IF m = 0
        THEN [c EXCEPT !.pc = "done", !.result = LbNone]
        ELSE [c EXCEPT !.pc = "nconn", !.cm = m, !.policy = NodePolicy,
                       !.path = "node", !.lbReqs = 1,
                       !.lbPols = {NodePolicy}]

\* session.rs:356-360: the result of the request is returned in Some
NodeConnEnd(c, ok) ==
    [c EXCEPT !.pc = "done", !.connRes = IF ok THEN "ok" ELSE "err",
              !.result = IF ok THEN LbSome(c.cm) ELSE LbErr(c.cm)]

\* the client calls node_connection(addr)
NodeConnCall(p) ==
    /\ call[p].pc = "idle"
    /\ \E addr \in Addrs :
         call' = [call EXCEPT ![p] = NodeConnBegin(size, addr)]
    /\ UNCHANGED <<aux, size, rr, up, created, pqId, pqQuery, issued, served, rotCalls>>

\* the connection request of node_connection ends
NodeConnDone(p) ==
    /\ call[p].pc = "nconn"
    /\ call' = [call EXCEPT ![p] = NodeConnEnd(call[p], ConnOk(call[p].cm))]
    /\ UNCHANGED <<aux, size, rr, up, created, pqId, pqQuery, issued, served, rotCalls>>

\* the client takes the result of node_connection
NodeConnReturn(p) ==
    /\ call[p].pc = "done"
    /\ call[p].op = "node"
    /\ call' = [call EXCEPT ![p] = IdleCall]
    /\ UNCHANGED <<aux, size, rr, up, created, pqId, pqQuery, issued, served, rotCalls>>

\* the same two steps, with the returned connections counted per node
RotCall(p) ==
    /\ rotCalls < MaxRotCalls
    /\ LbCall(p)

RotReturn(p) ==
    /\ call[p].pc = "done"
    /\ call[p].op = "lb"
    /\ call' = [call EXCEPT ![p] = IdleCall]
    /\ rotCalls' = rotCalls + 1
    /\ served' = IF call[p].result.kind = "LbOk"
                 THEN [served EXCEPT ![call[p].result.code] = @ + 1]
                 ELSE served
    /\ UNCHANGED <<aux, size, rr, up, created, pqId, pqQuery, issued>>

NodeDown(n) ==
    /\ n \in up
    /\ up' = up \ {n}
    /\ UNCHANGED <<aux, size, rr, created, pqId, pqQuery, issued, served, rotCalls, call>>

NodeUp(n) ==
    /\ n \in (1 .. size) \ up
    /\ up' = up \cup {n}
    /\ UNCHANGED <<aux, size, rr, created, pqId, pqQuery, issued, served, rotCalls, call>>

\* the session's request path, untouched by the steps below
sessionVars ==
    <<size, rr, up, created, pqId, pqQuery, issued, served, rotCalls, call>>

\* ------------------------------------------------- steps of the STARTUP codec

\* BodyReqStartup::new(compression)
StartupNew ==
    /\ startup.pc = "input"
    /\ startup' = [startup EXCEPT !.pc = "body",
                       !.body = BodyReqStartupNew(startup.compression)]
    /\ UNCHANGED <<sessionVars, listener, builder, cluster>>

\* body.serialize(cursor), the HashMap iterating in one of its orders
StartupSerialize ==
    /\ startup.pc = "body"
    /\ \E order \in IterOrders(startup.body.map) :
         startup' = [startup EXCEPT !.pc = "bytes",
                         !.bytes = Serialize(startup.body, order)]
    /\ UNCHANGED <<sessionVars, listener, builder, cluster>>

\* BodyReqStartup::from_cursor on the bytes just written; the allocator
\* grants the table of line 44 or not
StartupFromCursor ==
    /\ startup.pc = "bytes"
    /\ \E granted \in BOOLEAN :
         startup' = [startup EXCEPT !.pc = "parsed",
                         !.parsed = FromCursor(startup.bytes, granted)]
    /\ UNCHANGED <<sessionVars, listener, builder, cluster>>

\* Frame::new_req_startup(compression, version)
StartupFrame ==
    /\ startup.pc = "input"
    /\ \E order \in IterOrders(BodyReqStartupNew(startup.compression).map) :
         startup' = [startup EXCEPT !.pc = "frame",
                         !.frame = NewReqStartup(startup.compression,
                                                 startup.version, order)]
    /\ UNCHANGED <<sessionVars, listener, builder, cluster>>

\* ------------------------------------------------------ steps of listen

\* listen(node, authenticator, events) is called
ListenCall ==
    /\ listener.pc = "idle"
    /\ \E events \in EventLists : listener' = ListenBegin(events)
    /\ UNCHANGED <<sessionVars, startup, builder, cluster>>

\* the build of the node's configuration ends: with an error (the address
\* does not resolve), with an empty list, or with the node's configuration
ListenConfigDone ==
    /\ listener.pc = "config"
    /\ \E config \in ConfigOutcomes :
         listener' = ListenAfterConfig(listener, config)
    /\ UNCHANGED <<sessionVars, startup, builder, cluster>>

\* the connection request of the dedicated manager ends: the socket is open
\* and the handshake done, or the error is returned
ListenConnDone ==
    /\ listener.pc = "conn"
    /\ \E ok \in BOOLEAN :
         listener' = [ListenAfterConn(listener, ok) EXCEPT
                          !.connRes = IF ok THEN "ok" ELSE "err"]
    /\ UNCHANGED <<sessionVars, startup, builder, cluster>>

\* the write of REGISTER ends: the server answers READY, or an error, or the
\* transport is broken
ListenWriteDone ==
    /\ listener.pc = "write"
    /\ \E ok \in BOOLEAN :
         listener' = [ListenAfterWrite(listener, ok) EXCEPT
                          !.writeRes = IF ok THEN "ok" ELSE "err"]
    /\ UNCHANGED <<sessionVars, startup, builder, cluster>>

\* --------------------------------------------- steps of the session builder

\* TcpSessionBuilder::new(load_balancing, node_configs)
BuilderCreate ==
    /\ builder.pc = "none"
    /\ \E n \in 0 .. MaxNodes :
         builder' = [BuilderNew(n) EXCEPT !.givenNodes = n]
    /\ UNCHANGED <<sessionVars, startup, listener, cluster>>

\* one of the with_* setters is called with a value
BuilderWith ==
    /\ builder.pc = "building"
    /\ \E o \in Options : \E v \in OptionValues(o) :
         builder' = [WithOption(builder, o, v) EXCEPT
                         !.set = @ \cup {o},
                         !.given = [@ EXCEPT ![o] = v]]
    /\ UNCHANGED <<sessionVars, startup, listener, cluster>>

\* build() is called: the managers are made, the load balancer is given its
\* node list and the session exists (session.rs:818-844, no await)
BuilderBuild ==
    /\ builder.pc = "building"
    /\ builder' = [builder EXCEPT !.pc = "built",
                                  !.session = BuildSession(builder)]
    /\ cluster' = BuildCluster(NodeSeq(builder.node_configs))
    /\ SessionOf(cluster')
    /\ UNCHANGED <<startup, listener>>

\* ------------------------------------------- steps of connect_generic_static

\* connect_generic_static(config, initial_nodes, ..) is called
ConnectCall ==
    /\ cluster.pc = "none"
    /\ \E n \in 0 .. MaxNodes : cluster' = ConnectBegin(NodeSeq(n))
    /\ IF cluster'.session
       THEN SessionOf(cluster')
       ELSE UNCHANGED sessionVars
    /\ UNCHANGED <<startup, listener, builder>>

\* config.create_manager(node).await ends, with a manager or with an error
ConnectManagerDone ==
    /\ cluster.pc = "creating"
    /\ \E ok \in BOOLEAN : cluster' = ConnectCreated(cluster, ok)
    /\ IF cluster'.session
       THEN SessionOf(cluster')
       ELSE UNCHANGED sessionVars
    /\ UNCHANGED <<startup, listener, builder>>

\* ---------------------------------------------------------- specifications

\* One client task prepares a statement and executes it, call after call, on
\* a cluster whose nodes go down and come up.
Next ==
    \/ PrepareStart(MainCaller)
    \/ ExecStart(MainCaller, BOOLEAN)
    \/ LbEnter(MainCaller)
    \/ ConnDone(MainCaller)
    \/ Response(MainCaller)
    \/ Return(MainCaller)
    \/ \E n \in NodeIds : NodeDown(n)
    \/ \E n \in NodeIds : NodeUp(n)

Spec == Init /\ [][Next]_vars

\* Several client tasks execute the same prepared statement concurrently, on
\* a session of one healthy node, with requests that are not idempotent (the
\* id lock and the order of the steps of a call depend on neither).
InitConc == Init /\ size = 1

NextConc ==
    \E p \in Callers :
        \/ PrepareStart(p)
        \/ ExecStart(p, {FALSE})
        \/ LbEnter(p)
        \/ ConnDone(p)
        \/ Response(p)
        \/ Return(p)

SpecConc == InitConc /\ [][NextConc]_vars

\* One client task sends requests of every kind (query, batch, prepare,
\* execute), idempotent or not, on a cluster whose nodes go down and come up.
NextReq ==
    \/ QueryStart(MainCaller)
    \/ BatchStart(MainCaller)
    \/ PrepareStart(MainCaller)
    \/ ExecStart(MainCaller, BOOLEAN)
    \/ LbEnter(MainCaller)
    \/ ConnDone(MainCaller)
    \/ Response(MainCaller)
    \/ Return(MainCaller)
    \/ \E n \in NodeIds : NodeDown(n)
    \/ \E n \in NodeIds : NodeUp(n)

SpecReq == Init /\ [][NextReq]_vars

\* One client task asks the session for load-balanced connections, on a
\* cluster whose nodes go down and come up.
NextLb ==
    \/ LbCall(MainCaller)
    \/ LbEnter(MainCaller)
    \/ ConnDone(MainCaller)
    \/ LbReturn(MainCaller)
    \/ \E n \in NodeIds : NodeDown(n)
    \/ \E n \in NodeIds : NodeUp(n)

SpecLb == Init /\ [][NextLb]_vars

\* One client task asks the session for connections, load-balanced or to a
\* node of its choice, on a cluster whose nodes go down and come up.
NextNode ==
    \/ NodeConnCall(MainCaller)
    \/ NodeConnDone(MainCaller)
    \/ NodeConnReturn(MainCaller)
    \/ LbCall(MainCaller)
    \/ LbEnter(MainCaller)
    \/ ConnDone(MainCaller)
    \/ LbReturn(MainCaller)
    \/ \E n \in NodeIds : NodeDown(n)
    \/ \E n \in NodeIds : NodeUp(n)

SpecNode == Init /\ [][NextNode]_vars

\* The executor keeps polling the task, and a connection request ends (the
\* node accepts, refuses, or the attempt times out).
FairLb ==
    /\ SpecLb
    /\ WF_vars(LbEnter(MainCaller))
    /\ WF_vars(ConnDone(MainCaller))

\* One client task asks for load-balanced connections on a healthy cluster;
\* the connections returned are counted per node.
NextRot ==
    \/ RotCall(MainCaller)
    \/ LbEnter(MainCaller)
    \/ ConnDone(MainCaller)
    \/ RotReturn(MainCaller)

SpecRot == Init /\ [][NextRot]_vars

\* The STARTUP codec on every compression option and version: a body is
\* built, written and parsed back, or the STARTUP frame is built.
InitStartup ==
    /\ InitSession
    /\ size = 0
    /\ startup \in {[IdleStartup EXCEPT !.pc = "input", !.compression = c,
                                        !.version = v] :
                        c \in CompressionOptions, v \in Versions}
    /\ listener = IdleListener
    /\ builder = NoBuilder
    /\ cluster = BuiltCluster(size)

NextStartup ==
    \/ StartupNew
    \/ StartupSerialize
    \/ StartupFromCursor
    \/ StartupFrame

SpecStartup == InitStartup /\ [][NextStartup]_vars

\* One call of listen on a session, up to its return.
NextListen ==
    \/ ListenCall
    \/ ListenConfigDone
    \/ ListenConnDone
    \/ ListenWriteDone

SpecListen == Init /\ [][NextListen]_vars

\* A session builder is made, its setters are called in any number and order,
\* and the session is built.
NextBuilder ==
    \/ BuilderCreate
    \/ BuilderWith
    \/ BuilderBuild

SpecBuilder == Init /\ [][NextBuilder]_vars

\* No session yet: the load balancer has no node list.
InitFresh ==
    /\ InitSession
    /\ size = 0
    /\ startup = IdleStartup
    /\ listener = IdleListener
    /\ builder = NoBuilder
    /\ cluster = NoCluster

\* A session is made, by a builder or by connect_generic_static, and then
\* used: a client task asks it for connections, load-balanced or to a node of
\* its choice, while nodes go down and come up.
NextMake ==
    \/ cluster.pc = "none" /\ BuilderCreate
    \/ cluster.pc = "none" /\ BuilderBuild
    \/ builder.pc = "none" /\ ConnectCall
    \/ ConnectManagerDone
    \/ cluster.session /\ NodeConnCall(MainCaller)
    \/ NodeConnDone(MainCaller)
    \/ NodeConnReturn(MainCaller)
    \/ cluster.session /\ LbCall(MainCaller)
    \/ LbEnter(MainCaller)
    \/ ConnDone(MainCaller)
    \/ LbReturn(MainCaller)
    \/ cluster.session /\ \E n \in NodeIds : NodeDown(n)
    \/ cluster.session /\ \E n \in NodeIds : NodeUp(n)

SpecMake == InitFresh /\ [][NextMake]_vars

\* A session is built; a client task asks it for load-balanced connections
\* while another subscribes to server events with listen.
NextDedicated ==
    \/ cluster.pc = "none" /\ BuilderCreate
    \/ cluster.pc = "none" /\ BuilderBuild
    \/ cluster.session /\ ListenCall
    \/ ListenConfigDone
    \/ ListenConnDone
    \/ ListenWriteDone
    \/ cluster.session /\ LbCall(MainCaller)
    \/ LbEnter(MainCaller)
    \/ ConnDone(MainCaller)
    \/ LbReturn(MainCaller)

SpecDedicated == InitFresh /\ [][NextDedicated]_vars

\* -------------------------------------------------------------------- claims

\* C1: UNPREPARED recovery. When an exec call whose first EXECUTE was answered
\* with 0x2500 returns after a successful PREPARE and a successful second
\* EXECUTE, its result is the success result of that second EXECUTE (the rows
\* answering the frame with the new id) and PreparedQuery.id is the id the
\* PREPARE response carried.
C1_UnpreparedRecovery ==
    \A p \in Callers :
        LET c == call[p]
        IN  (/\ c.pc = "done" /\ c.op = "exec" /\ c.stage = "second"
             /\ c.lastResp.kind = "Rows")
            => /\ c.result = c.lastResp
               /\ c.result = Rows(c.prepResp.id)
               /\ pqId = c.prepResp.id

C1_Witness ==
    \E p \in Callers :
        /\ call[p].pc = "done" /\ call[p].op = "exec"
        /\ call[p].stage = "second"
        /\ call[p].result = Rows(pqId)
        /\ pqId # call[p].readId

\* C2: within one exec call the recovery runs at most once: at most one
\* PREPARE and at most two EXECUTE frames are handed to send_frame, and a
\* 0x2500 answer to the re-execute is returned to the caller.
C2_RecoveryOnce ==
    \A p \in Callers :
        LET c == call[p]
        IN  /\ c.nPrep <= 1
            /\ c.nExec <= 2
            /\ (/\ c.pc = "done" /\ c.op = "exec" /\ c.stage = "second"
                /\ IsUnprepared(c.lastResp))
               => (c.result = c.lastResp /\ c.nPrep = 1 /\ c.nExec = 2)

C2_Witness ==
    \E p \in Callers :
        /\ call[p].pc = "done" /\ call[p].op = "exec"
        /\ call[p].stage = "second"
        /\ IsUnprepared(call[p].result)

\* C3: after an EXECUTE failed with 0x2500, the PREPARE of the recovery and
\* the re-execute are written on the connection the previous frame of the
\* call was written on.
C3_SameConnection ==
    [][\A p \in Callers :
          (/\ call[p].op = "exec"
           /\ call[p].stage \in {"reprepare", "second"}
           /\ call[p].retries = 0
           /\ call[p].pc = "conn" /\ call'[p].pc = "await")
          => call'[p].conn = call[p].conn]_vars

\* The window of a call's recovery: its new id is written, its re-execute is
\* not yet written on a transport.
InWindow(c) == c.op = "exec" /\ c.stage = "second" /\ c.pc \in {"lbc", "conn"}
\* Caller p writes the id of its PREPARE into the handle in this step
WritesId(p) ==
    /\ call[p].op = "exec" /\ call[p].stage = "reprepare"
    /\ call'[p].stage = "second"
\* Caller p creates the handle in this step
CreatesHandle(p) == call[p].op = "prepare" /\ ~created /\ created'
\* The PREPARE of caller p's recovery is written on a transport in this step
SendsPrepare(p) ==
    /\ call[p].op = "exec" /\ call[p].stage = "reprepare"
    /\ call[p].pc = "conn" /\ call'[p].pc = "await"

\* C4 as stated: between a call's write of the new id and the dispatch of its
\* re-execute no other call reprepares the statement or writes the id.
C4_SequenceSerialized ==
    [][\A p, q \in Callers :
          (p # q /\ InWindow(call[p])) => ~(WritesId(q) \/ SendsPrepare(q))]_vars

\* C4 as amended: only the write of the id is serialized. Every write stores
\* the id of the writer's own PREPARE response, and a call's re-execute
\* carries the id of its own PREPARE whatever other calls wrote meanwhile.
C4_IdWriteOnly ==
    /\ [](\A p \in Callers :
            (call[p].op = "exec" /\ call[p].stage = "second")
            => call[p].frame = ExecuteFrame(call[p].prepResp.id))
    /\ [][\A q \in Callers :
            WritesId(q) => pqId' = call'[q].prepResp.id]_vars

C4_Witness ==
    \E p, q \in Callers :
        /\ p # q
        /\ InWindow(call[p])
        /\ call[q].op = "exec" /\ call[q].stage = "second"
        /\ pqId = call[q].prepResp.id
        /\ pqId # call[p].prepResp.id

\* C5: PreparedQuery.id is always an id that a successful PREPARE response
\* for the handle's text carried (the one that created the handle, or one of
\* a recovery), and it is written only by the step that receives such a
\* response.
C5_IdFromPrepare ==
    /\ [](IF created THEN pqId \in issued ELSE pqId = NoId)
    /\ [][pqId' # pqId =>
            \E p \in Callers :
                /\ call[p].pc = "await"
                /\ call[p].frame.opcode = "PREPARE"
                /\ call'[p].lastResp = Prepared(pqId')
                /\ WritesId(p) \/ CreatesHandle(p)]_vars

C5_Witness ==
    /\ created
    /\ issued = Ids
    /\ \E p \in Callers :
           /\ call[p].stage = "second" /\ pqId = call[p].prepResp.id
           /\ pqId # call[p].readId

\* C6: the text of a PreparedQuery never changes once the handle exists, and
\* the PREPARE of a recovery carries exactly that text.
C6_TextImmutable ==
    /\ [][created => (created' /\ pqQuery' = pqQuery)]_vars
    /\ [](\A p \in Callers :
            (call[p].op = "exec" /\ call[p].frame.opcode = "PREPARE")
            => call[p].frame.text = pqQuery)

C6_Witness ==
    \E p \in Callers :
        /\ call[p].op = "exec" /\ call[p].stage = "reprepare"
        /\ call[p].pc = "await"
        /\ call[p].frame = PrepareFrame(pqQuery)

\* C7: when every node refuses the connection, a call of
\* load_balanced_connection on a cluster of two or more nodes eventually
\* returns (or a node accepts again).
C7_Exhaustion ==
    (size >= 2 /\ call[MainCaller].pc = "conn" /\ up = {})
        ~> (call[MainCaller].pc = "done" \/ up # {})

\* C8: with exactly one node, load_balanced_connection makes one connection
\* request, on that manager, under the session's reconnection policy, and
\* returns that request's outcome: the connection or the error.
C8_SingleNode ==
    \A p \in Callers :
        LET c == call[p]
        IN  (size = 1 /\ c.op = "lb" /\ c.pc \in {"conn", "done"})
            => /\ c.cm = 1
               /\ c.policy = "Session" /\ c.lbPols = {"Session"}
               /\ c.lbReqs = 1 /\ c.lbNexts = 1
               /\ c.pc = "done" =>
                    /\ c.connRes # "none"
                    /\ c.result = IF c.connRes = "ok" THEN LbSome(1)
                                  ELSE LbErr(1)

C8_Witness ==
    \E p \in Callers :
        /\ size = 1 /\ call[p].op = "lb" /\ call[p].pc = "done"
        /\ call[p].result = LbErr(1)

\* C9: with more than one node every connection request of
\* load_balanced_connection is made under the Never policy; a manager whose
\* connection fails is skipped and the manager next() gives is asked; the
\* call returns None only when next() returned None.
C9_Rotation ==
    /\ [](\A p \in Callers :
            LET c == call[p]
            IN  /\ size >= 2 =>
                    (c.lbPols \subseteq {"Never"} /\ c.policy \in {"none", "Never"})
                /\ (c.pc = "done" /\ c.result = LbNone) => c.cm = 0)
    /\ [][\A p \in Callers :
            (/\ size >= 2 /\ call[p].pc = "conn" /\ ~ConnOk(call[p].cm)
             /\ call'[p] # call[p])
            => /\ call'[p].pc = "conn"
               /\ call'[p].cm = LbNext(size, rr)
               /\ call'[p].policy = "Never"
               /\ rr' = LbAdvance(size, rr)]_vars

C9_Witness ==
    \E p \in Callers :
        /\ size >= 2 /\ call[p].op = "lb" /\ call[p].pc = "done"
        /\ call[p].lbReqs = 2
        /\ call[p].result.kind = "LbOk"

\* C10: on a healthy cluster every call of load_balanced_connection calls
\* next() exactly once, the numbers of connections returned per node never
\* differ by more than 1, and 30 calls on 3 nodes return 10 per node.
C10_LoadRotation ==
    /\ \A m, n \in 1 .. size : served[m] - served[n] <= 1
    /\ \A p \in Callers :
           (size >= 1 /\ call[p].pc = "done") => call[p].lbNexts = 1
    /\ (size = 3 /\ rotCalls = 30) => \A n \in 1 .. 3 : served[n] = 10

C10_Witness ==
    /\ size = 3 /\ rotCalls = 30
    /\ \A n \in 1 .. 3 : served[n] = 10

\* The [string map] a byte string holds, read as the wire format defines it:
\* a 2-byte count, then that many pairs of strings.
StringMapOf(bytes) ==
    LET n == ReadShort(bytes, 0)
    IN  IF ~n.ok THEN ParseErr ELSE ReadPairs(bytes, n.pos, n.val, EmptyMap)

\* C11: round trip of the STARTUP body. Parsing the bytes written by
\* serialize with from_cursor succeeds and yields a body equal to the one
\* that was written, with or without a compression name.
C11_RoundTrip ==
    startup.pc = "parsed"
        => (startup.parsed.ok /\ startup.parsed.map = startup.body.map)

\* C12: the map of BodyReqStartup::new(c) holds CQL_VERSION mapped to "3.0.0",
\* holds COMPRESSION mapped to the given name exactly when c is Some, and
\* holds no other key: one entry without compression, two with it.
C12_NewMap ==
    startup.pc \in {"body", "bytes", "parsed"}
        => LET m == startup.body.map
               c == startup.compression
           IN  /\ <<CQL_VERSION, CQL_VERSION_VAL>> \in m
               /\ c.some <=> (\E e \in m : e[1] = COMPRESSION)
               /\ c.some => <<COMPRESSION, c.name>> \in m
               /\ \A e \in m : e[1] \in {CQL_VERSION, COMPRESSION}
               /\ \A e, f \in m : e[1] = f[1] => e = f
               /\ Cardinality(m) = IF c.some THEN 2 ELSE 1

C12_Witness ==
    /\ startup.pc = "body"
    /\ startup.compression = SomeCompression(LZ4)
    /\ <<COMPRESSION, LZ4>> \in startup.body.map
    /\ Cardinality(startup.body.map) = 2

\* C13: the serialized STARTUP body is a [string map]: a 2-byte big-endian
\* count equal to the number of entries of the map, then that many pairs of
\* strings, each prefixed by its 2-byte length, and nothing more; without
\* compression it is exactly 22 bytes.
C13_StringMap ==
    startup.pc \in {"bytes", "parsed"}
        => LET b == startup.bytes
               m == startup.body.map
               d == StringMapOf(b)
           IN  /\ Len(b) >= 2
               /\ b[1] * 256 + b[2] = Cardinality(m)
               /\ d.ok /\ d.map = m /\ d.pos = Len(b)
               /\ ~startup.compression.some => Len(b) = 22
               /\ startup.compression.some
                    => Len(b) = 37 + Len(startup.compression.name)

C13_Witness ==
    /\ startup.pc = "bytes"
    /\ ~startup.compression.some
    /\ startup.bytes = <<0, 1>> \o <<0, 11>> \o CQL_VERSION
                           \o <<0, 5>> \o CQL_VERSION_VAL

\* C14: the frame of Frame::new_req_startup(compression, version) is a
\* request of the given version with opcode Startup, no flag set (also when a
\* compression is given), no tracing id and no warning.
C14_StartupFrame ==
    startup.pc = "frame"
        => /\ startup.frame.version = startup.version
           /\ startup.frame.direction = "Request"
           /\ startup.frame.opcode = "Startup"
           /\ startup.frame.flags = {}
           /\ startup.frame.tracing_id = "None"
           /\ startup.frame.warnings = <<>>

C14_Witness ==
    /\ startup.pc = "frame"
    /\ startup.compression = SomeCompression(SNAPPY)
    /\ startup.version = "V4"
    /\ startup.frame.flags = {}
    /\ Len(startup.frame.body) = 43

\* C15: listen follows a strict order. The REGISTER frame with the requested
\* event types is written only after the dedicated connection was obtained
\* ready; the handle and the stream are returned only after the write of
\* REGISTER succeeded; when the connection attempt or the write fails, listen
\* returns the error and there is no handle and no stream.
C15_ListenOrder ==
    LET l == listener
    IN  /\ l.register # NoRegister
            => (l.connRes = "ok" /\ l.register = RegisterFrame(l.events))
        /\ (l.handle # "none" \/ l.stream # "none")
            => (l.writeRes = "ok" /\ l.result = "Ok")
        /\ (l.connRes = "err" \/ l.writeRes = "err")
            => (l.pc = "done" /\ l.result = "Err")
        /\ l.connRes = "err" => l.register = NoRegister
        /\ l.result = "Err" => (l.handle = "none" /\ l.stream = "none")
        /\ l.writeRes = "ok"
            => (l.result = "Ok" /\ l.handle # "none" /\ l.stream = "open")

C15_Witness ==
    /\ listener.pc = "done"
    /\ listener.result = "Ok"
    /\ listener.events = <<"STATUS_CHANGE">>
    /\ listener.register = RegisterFrame(<<"STATUS_CHANGE">>)
    /\ listener.handle = "open"

\* C17: every option of the builder that no with_* setter was called for has
\* its default (compression None, buffer size 1024, tcp_nodelay true, the
\* default retry policy, the exponential reconnection policy), every option
\* a setter was called for has the value last given, the node list is the
\* one given to new, and build passes these values to the session and to the
\* managers of its nodes unchanged.
C17_BuilderOptions ==
    LET b == builder
        Defaults == [compression |-> "None",
                     transport_buffer_size |-> 1024,
                     tcp_nodelay |-> TRUE,
                     retry_policy |-> "Default",
                     reconnection_policy |-> "Exponential"]
        Expected == [o \in Options |->
                        IF o \in b.set THEN b.given[o] ELSE Defaults[o]]
    IN  /\ b.pc # "none"
            => /\ \A o \in Options : b.config[o] = Expected[o]
               /\ b.node_configs = b.givenNodes
        /\ b.pc = "built"
            => /\ b.session.built
               /\ \A o \in Options : b.session.config[o] = Expected[o]
               /\ b.session.nodes = b.givenNodes
               /\ Cardinality(b.session.managers) = b.givenNodes
               /\ \A m \in b.session.managers :
                    /\ m.compression = Expected["compression"]
                    /\ m.transport_buffer_size
                         = Expected["transport_buffer_size"]
                    /\ m.tcp_nodelay = Expected["tcp_nodelay"]

C17_Witness ==
    /\ builder.pc = "built"
    /\ builder.set = {"tcp_nodelay", "transport_buffer_size"}
    /\ builder.session.config =
           [compression |-> "None", transport_buffer_size |-> 4096,
            tcp_nodelay |-> FALSE, retry_policy |-> "Default",
            reconnection_policy |-> "Exponential"]
    /\ builder.session.nodes = 2

\* C18: the order of the steps of exec_with_params_tw on UNPREPARED, for one
\* client task: EXECUTE with the id read from the handle, then PREPARE, then
\* the write of the new id, then EXECUTE with the new id. The id is written in
\* the step that receives the Prepared response, before the re-execute is
\* handed to a transport, and the handle keeps it when the re-execute fails.
C18_StepOrder ==
    /\ [](\A p \in Callers :
            LET c == call[p]
            IN  c.op = "exec" =>
                /\ c.stage = "first"
                     => /\ c.frame = ExecuteFrame(c.readId)
                        /\ c.nExec = 1 /\ c.nPrep = 0
                        /\ pqId = c.readId
                /\ c.stage = "reprepare"
                     => /\ c.frame.opcode = "PREPARE"
                        /\ c.nExec = 1 /\ c.nPrep = 1
                        /\ pqId = c.readId
                /\ c.stage = "second"
                     => /\ c.prepResp.kind = "Prepared"
                        /\ pqId = c.prepResp.id
                        /\ c.frame = ExecuteFrame(c.prepResp.id)
                        /\ c.nExec = 2 /\ c.nPrep = 1)
    /\ [][\A p \in Callers :
            (call[p].op = "exec" /\ call'[p].stage # call[p].stage
             /\ call'[p].op = "exec")
            => \/ /\ call[p].stage = "first" /\ call'[p].stage = "reprepare"
                  /\ pqId' = pqId
               \/ /\ call[p].stage = "reprepare" /\ call'[p].stage = "second"
                  /\ call[p].pc = "await"
                  /\ call'[p].lastResp.kind = "Prepared"
                  /\ pqId' = call'[p].lastResp.id
                  /\ call'[p].pc = "lbc"]_vars

C18_Witness ==
    \E p \in Callers :
        /\ call[p].op = "exec" /\ call[p].stage = "second"
        /\ call[p].pc = "done"
        /\ call[p].result.kind = "Io"
        /\ pqId = call[p].prepResp.id
        /\ pqId # call[p].readId

\* C19: when the first EXECUTE fails with UNPREPARED and the reprepare fails,
\* the call returns the UNPREPARED error of the first EXECUTE (not the error
\* of the reprepare), PreparedQuery.id is unchanged and no second EXECUTE is
\* sent.
C19_ReprepareFails ==
    \A p \in Callers :
        LET c == call[p]
        IN  (c.op = "exec" /\ c.stage = "reprepare" /\ c.pc = "done")
            => /\ c.result = Res("Server", 9472, NoId)
               /\ c.lastResp.kind # "Prepared"
               /\ c.nExec = 1
               /\ c.frame.opcode = "PREPARE"
               /\ pqId = c.readId

C19_Witness ==
    \E p \in Callers :
        /\ call[p].op = "exec" /\ call[p].stage = "reprepare"
        /\ call[p].pc = "done"
        /\ call[p].lastResp.kind = "Io"
        /\ call[p].result = Res("Server", 9472, NoId)
        /\ pqId = call[p].readId

\* C20: when the first EXECUTE succeeds, or fails with anything other than
\* the server error 0x2500, the call returns that first result unchanged,
\* sends no PREPARE and no second EXECUTE, and leaves PreparedQuery.id
\* unchanged; only 0x2500 starts the recovery.
C20_FirstResultReturned ==
    /\ [](\A p \in Callers :
            LET c == call[p]
            IN  c.op = "exec" =>
                /\ (c.stage = "first" /\ c.pc = "done")
                     => /\ ~(c.result.kind = "Server" /\ c.result.code = 9472)
                        /\ c.nPrep = 0 /\ c.nExec = 1
                        /\ c.frame = ExecuteFrame(c.readId)
                        /\ pqId = c.readId
                /\ c.stage = "reprepare"
                     => c.result = Res("Server", 9472, NoId))
    /\ [][\A p \in Callers :
            (call[p].op = "exec" /\ call[p].stage = "first"
             /\ call[p].pc # "done")
            => /\ (call[p].pc = "await" /\ call'[p].pc = "done")
                    => (call'[p].result = call'[p].lastResp /\ pqId' = pqId)
               /\ (call[p].pc # "await" /\ call'[p].pc = "done")
                    => (call'[p].result.kind \in {"Io", "General"}
                        /\ pqId' = pqId)
               /\ call'[p].stage # "first"
                    => call'[p].lastResp = Res("Server", 9472, NoId)]_vars

C20_Witness ==
    \E p \in Callers :
        /\ call[p].op = "exec" /\ call[p].stage = "first"
        /\ call[p].pc = "done"
        /\ call[p].result = Res("Server", 4352, NoId)
        /\ call[p].nPrep = 0 /\ pqId = call[p].readId


\* ------------------------------------------------------------------- C21

\* The executor keeps polling the client task, every connection request ends
\* and every frame written gets a response or a transport error.
FairSpec ==
    /\ Spec
    /\ WF_vars(LbEnter(MainCaller))
    /\ WF_vars(ConnDone(MainCaller))
    /\ WF_vars(Response(MainCaller))

\* The same for concurrent executions of one statement on a one-node session.
FairConc ==
    /\ SpecConc
    /\ \A p \in Callers :
         WF_vars(LbEnter(p)) /\ WF_vars(ConnDone(p)) /\ WF_vars(Response(p))

\* a call of exec_with_params_tw is suspended in an await
Suspended(p) == call[p].op = "exec" /\ call[p].pc \in {"lbc", "conn", "await"}

\* no guard of the id lock is held by a suspended call
NoGuardAcrossAwait == \A p \in Callers : Suspended(p) => call[p].held = "none"

\* every call of exec_with_params_tw returns (one-node session)
EveryCallReturnsConc == \A p \in Callers : Suspended(p) ~> call[p].pc = "done"

\* C21: no guard of the id lock is held while a call of exec_with_params_tw
\* is suspended, and every call of exec_with_params_tw that is scheduled
\* eventually returns (or, while every node refuses connections, a node
\* accepts again).
C21_EveryCallReturns ==
    /\ []NoGuardAcrossAwait
    /\ (Suspended(MainCaller) /\ up = {})
          ~> (call[MainCaller].pc = "done" \/ up # {})


\* ------------------------------------------------------------------- C22

\* caller p has recovered: its PREPARE returned an id, which it wrote
Recovered(p) == call[p].op = "exec" /\ call[p].stage = "second"

\* C22: a recovering call re-executes with the id of its own PREPARE, the
\* handle holds the id written by the latest writer, and when every call has
\* recovered and come to its return the handle holds the id of the call that
\* wrote last.
C22_LastWriterWins ==
    /\ \A p \in Callers :
         Recovered(p) => call[p].frame.id = call[p].newId
    /\ \A p \in Callers :
         (Recovered(p) /\ call[p].last) => pqId = call[p].newId
    /\ (\A p \in Callers : Recovered(p) /\ call[p].pc = "done")
         => \E p \in Callers : call[p].last /\ pqId = call[p].newId

C22_Witness ==
    \E p, q \in Callers :
        /\ p # q
        /\ Recovered(p) /\ call[p].pc = "done"
        /\ Recovered(q) /\ call[q].pc = "done"
        /\ call[p].newId # call[q].newId
        /\ call[p].frame.id = call[p].newId
        /\ call[q].last /\ ~call[p].last
        /\ pqId = call[q].newId


\* ------------------------------------------------------------------- C23

\* C23: on a session of two or more nodes a call of load_balanced_connection
\* returns a connection or None, never the error of a connection request; a
\* connection it returns is one of a node that accepted.
C23_NoConnectionError ==
    \A p \in Callers :
        (size >= 2 /\ call[p].op = "lb" /\ call[p].pc = "done")
        => /\ call[p].result.kind \in {"LbOk", "LbNone"}
           /\ call[p].result.kind = "LbOk" => call[p].result.code = call[p].cm

\* a failed request was swallowed before another node accepted
C23_Witness ==
    \E p \in Callers :
        /\ size >= 2 /\ call[p].op = "lb" /\ call[p].pc = "done"
        /\ call[p].lbNexts = 2
        /\ \E n \in 1 .. size : ~ConnOk(n)
        /\ call[p].result = LbSome(call[p].cm)


\* ------------------------------------------------------------------- C24

\* the call is inside a send_frame (dispatch, or the retry decision)
Dispatching(p) == call[p].pc \in {"lbc", "conn", "await"} /\ call[p].op # "lb"

\* C24: the flag send_frame holds for a QUERY, a BATCH or an EXECUTE (the
\* first one and the re-execute) is is_idempotent of the request's
\* parameters; for a PREPARE it is false, also during the recovery of an
\* idempotent execute; a frame dispatched as not idempotent is never retried.
C24_Idempotence ==
    \A p \in Callers :
        Dispatching(p) =>
            /\ call[p].frame.opcode \in {"QUERY", "BATCH", "EXECUTE"}
                   => call[p].idem = call[p].qidem
            /\ call[p].frame.opcode = "PREPARE" => ~call[p].idem
            /\ ~call[p].idem => call[p].retries = 0

C24_Witness ==
    \E p \in Callers :
        /\ call[p].op = "exec" /\ call[p].stage = "reprepare"
        /\ call[p].pc = "await"
        /\ call[p].frame.opcode = "PREPARE"
        /\ call[p].qidem /\ ~call[p].idem


\* ------------------------------------------------------------------- C26

\* C26: node_connection(addr) returns None with no connection request when
\* no manager has the address; otherwise it asks exactly the manager of that
\* address, once, under the session's reconnection policy, and returns what
\* the request gave, whatever the size of the cluster; it never calls next(),
\* so the rotation stays where it was.
C26_NodeConnection ==
    /\ [](\A p \in Callers :
            LET c == call[p]
            IN  c.op = "node" =>
                    IF c.addr \in 1 .. size
                    THEN /\ c.cm = c.addr
                         /\ c.policy = "Session" /\ c.lbPols = {"Session"}
                         /\ c.lbReqs = 1 /\ c.lbNexts = 0
                         /\ c.pc = "done" =>
                                c.result \in {LbSome(c.addr), LbErr(c.addr)}
                    ELSE /\ c.pc = "done" /\ c.result = LbNone
                         /\ c.lbReqs = 0 /\ c.lbNexts = 0 /\ c.cm = 0)
    /\ [][\A p \in Callers :
            (call[p].op = "node" \/ call'[p].op = "node") => rr' = rr]_vars

\* on a cluster of several nodes the chosen node refuses and its error is
\* returned, after load-balanced calls moved the rotation elsewhere
C26_Witness ==
    \E p \in Callers :
        /\ size >= 2 /\ rr # 0
        /\ call[p].op = "node" /\ call[p].pc = "done"
        /\ call[p].addr = 2 /\ call[p].result = LbErr(2)


\* ------------------------------------------------------------------- C25

\* C25: the load balancer is given its node list once per session, in the
\* step that makes the Session value and not before or after it: the list
\* holds one manager per configured node in configuration order; no later
\* step changes the list or calls init; a connect_generic_static whose
\* create_manager fails returns the error with no init and no session.
C25_InitOnce ==
    /\ [](/\ cluster.initCalls = (IF cluster.session THEN 1 ELSE 0)
          /\ cluster.session =>
                 /\ cluster.lbNodes = cluster.initial_nodes
                 /\ size = Len(cluster.initial_nodes)
                 /\ cluster.result = "Ok"
          /\ ~cluster.session => (cluster.lbNodes = <<>> /\ size = 0)
          /\ cluster.result = "Err" =>
                 /\ cluster.path = "connect" /\ cluster.pc = "done"
                 /\ ~cluster.session /\ cluster.initCalls = 0
                 /\ Len(cluster.nodes) < Len(cluster.initial_nodes))
    /\ [][cluster.session =>
              /\ cluster'.initCalls = cluster.initCalls
              /\ cluster'.lbNodes = cluster.lbNodes
              /\ size' = size]_vars

\* a session of several nodes made by connect_generic_static is in use
C25_Witness ==
    /\ cluster.path = "connect" /\ cluster.session
    /\ cluster.lbNodes = NodeSeq(MaxNodes)
    /\ cluster.initCalls = 1
    /\ call[MainCaller].op = "lb" /\ call[MainCaller].pc = "done"
    /\ rr # 0

\* connect_generic_static has failed on its second node
FailedConnectReached ==
    /\ cluster.result = "Err" /\ cluster.failedAt = 2
    /\ Len(cluster.nodes) = 1

\* a session made by TcpSessionBuilder::build is in use
BuiltSessionInUse ==
    /\ cluster.path = "build" /\ cluster.session /\ size >= 2
    /\ call[MainCaller].op = "node" /\ call[MainCaller].pc = "done"


\* ------------------------------------------------------------------- C27

\* C27: a step of listen, whether the call succeeds or fails, leaves the
\* load balancer's node list, its size and the rotation as they were, and
\* the pool of the session too; the manager listen makes has an event
\* handler, the managers of the pool, one per node of the list, have none.
C27_Dedicated ==
    /\ [][listener' # listener =>
              /\ size' = size /\ rr' = rr
              /\ cluster'.lbNodes = cluster.lbNodes
              /\ builder'.session = builder.session]_vars
    /\ [](/\ listener.manager \in {"created", "dropped"}
               => listener.handler = "Some"
          /\ \A m \in builder.session.managers : m.handler = "None"
          /\ cluster.session =>
                 /\ {m.node : m \in builder.session.managers} = 1 .. size
                 /\ Len(cluster.lbNodes) = size)

\* listen has returned its handle on a session of several nodes whose
\* rotation has moved
C27_Witness ==
    /\ listener.pc = "done" /\ listener.result = "Ok"
    /\ listener.handler = "Some"
    /\ size >= 2 /\ rr # 0
    /\ Cardinality(builder.session.managers) = size

\* listen has failed on a session of several nodes whose rotation has moved
ListenFailedReached ==
    /\ listener.pc = "done" /\ listener.result = "Err"
    /\ size >= 2 /\ rr # 0

====
